---- MODULE Spec2Model ----
(***************************************************************************)
(* Web Bluetooth FTMS / heart-rate client of the gym kiosk                 *)
(* (src/src/lib/bluetooth.js): the telemetry decoders and the connection   *)
(* life cycle of one session (_connectWithDevice, connectToHRMonitor).     *)
(*                                                                         *)
(* Every `await` of the source is a point where the event loop may run     *)
(* other tasks.  A process whose pc names a transport call has issued that *)
(* call and is waiting for it; the action that resolves the call also runs *)
(* the synchronous code up to the next await.  Time is abstract: a timer   *)
(* or a sleep that has been started may expire at any later moment.        *)
(***************************************************************************)
EXTENDS Integers, Sequences, FiniteSets, Bags, TLC

\* ------------------------------------------------------------------ bounds
\* silent reconnect loops (attemptSilentReconnect calls) one session may start
MaxReconnects == 2
\* the same where notifications are followed as well
TelemetryReconnects == 1
\* notifications the characteristic delivers during one session
MaxNotifications == 2
\* the same where the entry point functions are followed from their call
FacadeReconnects == 1
\* the same where the progress of the reconnect loops is followed
ProgressReconnects == 1
\* devices navigator.bluetooth.getDevices() may resolve with
MaxDevices == 2
\* decoder inputs: the flag bits that vary (bits 0 .. FlagBits-1 of the
\* 16-bit flags field), and the payload lengths after the flags field
FlagBits == 12
MaxPayload == 26
ShortPayload == 9

\* ------------------------------------------------------- program constants
\* _connectWithDevice: opts.maxAttempts default; connectToHRMonitor MAX_ATTEMPTS
DefaultMaxAttempts == 3
\* reconnectToMachine passes { maxAttempts: 1 }
ReconnectMaxAttempts == 1
\* attemptSilentReconnect: for (let i = 1; i <= 3; i++)
ReconnectCycles == 3

MACHINE_TYPES == {"echo_bike", "ski_erg"}
DEVICE_TYPES == MACHINE_TYPES \cup {"hr_monitor"}

\* ---------------------------------------------------------------- decoders
\* A DataView is a sequence of bytes; offsets are 0-based as in the source.
\* fields initialised to 0 instead of null
Null_Zero == << 0 >>
Null == <<>>
Some(v) == <<v>>
\* a decoder either returns a value or throws
Returns(v) == [value |-> v]
DecodeError == [threw |-> "RangeError"]
Threw(r) == "threw" \in DOMAIN r

\* DataView accessors throw a RangeError when the read leaves the buffer.
\* a bounds check that refuses a read of the last byte of the buffer
InBounds_LastByteRefused(dv, off, width) == off >= 0 /\ off + width < Len(dv)
InBounds(dv, off, width) == off >= 0 /\ off + width <= Len(dv)
GetUint8(dv, off) == dv[off + 1]
GetUint16(dv, off) == dv[off + 1] + 256 * dv[off + 2]
\* the 16-bit read without the sign
GetInt16_Unsigned(dv, off) == GetUint16(dv, off)
GetInt16(dv, off) ==
  LET u == GetUint16(dv, off) IN IF u >= 32768 THEN u - 65536 ELSE u
\* a << k for a byte a and k <= 16: the product is below 2^31, so the 32-bit
\* result of the shift is the product itself
Shl(a, k) == a * 2^k
\* a | b for non-negative 32-bit operands, bit by bit
RECURSIVE BitOr(_, _)
BitOr(a, b) ==
  IF a = 0 THEN b
  ELSE IF b = 0 THEN a
  ELSE (IF a % 2 = 1 \/ b % 2 = 1 THEN 1 ELSE 0) + 2 * BitOr(a \div 2, b \div 2)
\* the three bytes combined with the high byte shifted by 8 like the middle one
GetUint24_HighByteShift8(dv, off) ==
  BitOr(BitOr(GetUint8(dv, off), Shl(GetUint8(dv, off + 1), 8)),
        Shl(GetUint8(dv, off + 2), 8))
\* getUint8(off) | (getUint8(off + 1) << 8) | (getUint8(off + 2) << 16)
GetUint24(dv, off) ==
  BitOr(BitOr(GetUint8(dv, off), Shl(GetUint8(dv, off + 1), 8)),
        Shl(GetUint8(dv, off + 2), 16))
\* (flags & mask) !== 0, mask a power of two
Flag(flags, mask) == (flags \div mask) % 2 = 1
\* raw * 0.5 as an exact decimal: integer part and tenths
Half(raw) == [int |-> raw \div 2, tenths |-> 5 * (raw % 2)]
\* the energy field taken for its first 16 bits only
Skip_EnergyTwoBytes(flags, mask, width) ==
  IF Flag(flags, mask) THEN (IF mask = 256 THEN 2 ELSE width) ELSE 0
\* if (flags & mask) offset += width
Skip(flags, mask, width) == IF Flag(flags, mask) THEN width ELSE 0

parseIndoorBikeData(dv) ==
  IF ~InBounds(dv, 0, 2) THEN DecodeError
  ELSE
    LET flags == GetUint16(dv, 0)
        oAvgSpeed == 2 + (IF ~Flag(flags, 1) THEN 2 ELSE 0)
        oCadence == oAvgSpeed + Skip(flags, 2, 2)
        oAvgCadence == oCadence + Skip(flags, 4, 2)
        oDistance == oAvgCadence + Skip(flags, 8, 2)
        oResistance == oDistance + Skip(flags, 16, 3)
        oPower == oResistance + Skip(flags, 32, 2)
        oAvgPower == oPower + Skip(flags, 64, 2)
        oEnergy == oAvgPower + Skip(flags, 128, 2)
        oHeartRate == oEnergy + Skip(flags, 256, 5)
        oMet == oHeartRate + Skip(flags, 512, 1)
        oElapsed == oMet + Skip(flags, 1024, 1)
        readsOk ==
          /\ Flag(flags, 4) => InBounds(dv, oCadence, 2)
          /\ Flag(flags, 16) => InBounds(dv, oDistance, 3)
          /\ Flag(flags, 64) => InBounds(dv, oPower, 2)
          /\ Flag(flags, 256) => InBounds(dv, oEnergy, 2)
          /\ Flag(flags, 2048) => InBounds(dv, oElapsed, 2)
    IN IF ~readsOk THEN DecodeError
       ELSE Returns(
            [ watts |-> IF Flag(flags, 64) THEN Some(GetInt16(dv, oPower)) ELSE Null,
              cadence |-> IF Flag(flags, 4) THEN Some(Half(GetUint16(dv, oCadence))) ELSE Null,
              distance |-> IF Flag(flags, 16) THEN Some(GetUint24(dv, oDistance)) ELSE Null,
              calories |-> IF Flag(flags, 256) THEN Some(GetUint16(dv, oEnergy)) ELSE Null,
              elapsedTime |-> IF Flag(flags, 2048) THEN Some(GetUint16(dv, oElapsed)) ELSE Null ])

\* the rower decoder where the stroke rate slot is one byte wide
parseRowingMachineData_StrokeOneByte(dv) ==
  IF ~InBounds(dv, 0, 2) THEN DecodeError
  ELSE
    LET flags == GetUint16(dv, 0)
        hasStroke == ~Flag(flags, 1)
        oAvgStroke == 2 + (IF hasStroke THEN 1 ELSE 0)
        oDistance == oAvgStroke + Skip(flags, 2, 1)
        oPace == oDistance + Skip(flags, 4, 3)
        oAvgPace == oPace + Skip(flags, 8, 2)
        oPower == oAvgPace + Skip(flags, 16, 2)
        oAvgPower == oPower + Skip(flags, 32, 2)
        oResistance == oAvgPower + Skip(flags, 64, 2)
        oEnergy == oResistance + Skip(flags, 128, 2)
        oHeartRate == oEnergy + Skip(flags, 256, 5)
        oMet == oHeartRate + Skip(flags, 512, 1)
        oElapsed == oMet + Skip(flags, 1024, 1)
        readsOk ==
          /\ hasStroke => InBounds(dv, 2, 1)
          /\ Flag(flags, 4) => InBounds(dv, oDistance, 3)
          /\ Flag(flags, 32) => InBounds(dv, oPower, 2)
          /\ Flag(flags, 256) => InBounds(dv, oEnergy, 2)
          /\ Flag(flags, 2048) => InBounds(dv, oElapsed, 2)
    IN IF ~readsOk THEN DecodeError
       ELSE Returns(
            [ watts |-> IF Flag(flags, 32) THEN Some(GetInt16(dv, oPower)) ELSE Null,
              strokeRate |-> IF hasStroke THEN Some(Half(GetUint8(dv, 2))) ELSE Null,
              distance |-> IF Flag(flags, 4) THEN Some(GetUint24(dv, oDistance)) ELSE Null,
              calories |-> IF Flag(flags, 256) THEN Some(GetUint16(dv, oEnergy)) ELSE Null,
              elapsedTime |-> IF Flag(flags, 2048) THEN Some(GetUint16(dv, oElapsed)) ELSE Null ])

parseRowingMachineData(dv) ==
  IF ~InBounds(dv, 0, 2) THEN DecodeError
  ELSE
    LET flags == GetUint16(dv, 0)
        hasStroke == ~Flag(flags, 1)
        oAvgStroke == 2 + (IF hasStroke THEN 3 ELSE 0)
        oDistance == oAvgStroke + Skip(flags, 2, 1)
        oPace == oDistance + Skip(flags, 4, 3)
        oAvgPace == oPace + Skip(flags, 8, 2)
        oPower == oAvgPace + Skip(flags, 16, 2)
        oAvgPower == oPower + Skip(flags, 32, 2)
        oResistance == oAvgPower + Skip(flags, 64, 2)
        oEnergy == oResistance + Skip(flags, 128, 2)
        oHeartRate == oEnergy + Skip(flags, 256, 5)
        oMet == oHeartRate + Skip(flags, 512, 1)
        oElapsed == oMet + Skip(flags, 1024, 1)
        readsOk ==
          /\ hasStroke => InBounds(dv, 2, 1)
          /\ Flag(flags, 4) => InBounds(dv, oDistance, 3)
          /\ Flag(flags, 32) => InBounds(dv, oPower, 2)
          /\ Flag(flags, 256) => InBounds(dv, oEnergy, 2)
          /\ Flag(flags, 2048) => InBounds(dv, oElapsed, 2)
    IN IF ~readsOk THEN DecodeError
       ELSE Returns(
            [ watts |-> IF Flag(flags, 32) THEN Some(GetInt16(dv, oPower)) ELSE Null,
              strokeRate |-> IF hasStroke THEN Some(Half(GetUint8(dv, 2))) ELSE Null,
              distance |-> IF Flag(flags, 4) THEN Some(GetUint24(dv, oDistance)) ELSE Null,
              calories |-> IF Flag(flags, 256) THEN Some(GetUint16(dv, oEnergy)) ELSE Null,
              elapsedTime |-> IF Flag(flags, 2048) THEN Some(GetUint16(dv, oElapsed)) ELSE Null ])

\* the heart-rate decoder that always takes the 8-bit format
parseHRMeasurement_AlwaysUint8(dv) ==
  IF ~InBounds(dv, 0, 1) THEN DecodeError
  ELSE IF InBounds(dv, 1, 1) THEN Returns(GetUint8(dv, 1)) ELSE DecodeError

parseHRMeasurement(dv) ==
  IF ~InBounds(dv, 0, 1) THEN DecodeError
  ELSE IF Flag(GetUint8(dv, 0), 1)
       THEN (IF InBounds(dv, 1, 2) THEN Returns(GetUint16(dv, 1)) ELSE DecodeError)
       ELSE (IF InBounds(dv, 1, 1) THEN Returns(GetUint8(dv, 1)) ELSE DecodeError)

\* the parser a session applies to its notifications
parseData(type, dv) ==
  CASE type = "ski_erg" -> parseRowingMachineData(dv)
    [] type = "echo_bike" -> parseIndoorBikeData(dv)
    [] OTHER -> parseHRMeasurement(dv)

\* Payloads the subscribed characteristic delivers in the life-cycle model:
\* two well-formed frames and one the decoder rejects, per device type.
Frames(type) ==
  CASE type = "echo_bike" ->
         { <<68, 0, 10, 0, 121, 0, 250, 0>>,      \* cadence 60.5, 250 W
           <<68, 0, 10, 0, 120, 0, 56, 255>>,     \* cadence 60, -200 W
           <<68, 0, 10, 0, 120, 0, 250>> }        \* power slot cut short
    [] type = "ski_erg" ->
         { <<32, 0, 61, 7, 0, 150, 0>>,           \* stroke rate 30.5, 150 W
           <<33, 0, 150, 0>>,                     \* no stroke rate, 150 W
           <<33, 0, 150>> }                       \* power slot cut short
    [] OTHER ->
         { <<0, 75>>, <<1, 220, 0>>, <<1, 220>> }

\* ------------------------------------------------------------------- state
VARIABLES
  entry,             \* the public entry point that was called
  deviceType,        \* machineType, or "hr_monitor"
  main,              \* the initial connect loop: [pc, n, valid], n its attempt
  loops,             \* the attemptSilentReconnect calls in flight, a bag of
                     \* [pc, n, valid], n the cycle
  lastErr,           \* lastErr of the initial connect loop
  thrown,            \* the error the entry point rejected with
  handles,           \* session handles returned to the caller
  fullyConnected,    \* closure flag of the session
  disconnectTimer,   \* [handle, pending]: the state of the timeout the variable
                     \* disconnectTimer names ("null" before the first one), and
                     \* the number of pending timeouts armed by onGattDisconnected
  deviceListener,    \* onGattDisconnected is registered on the device
  gattConnected,     \* device.gatt.connected
  charListener,      \* handleNotification is registered on the characteristic
                     \* object of the current connection
  notifying,         \* startNotifications succeeded on the current connection
  arrivals,          \* payloads the characteristic has dispatched, in order
  metricsLog,        \* arguments of the onMetrics calls, in order
  nReconnecting,     \* calls of onReconnecting
  nTerminal,         \* calls of onDisconnect (the terminal-failure callback)
  disconnectCalled,  \* the caller has invoked handle.disconnect()
  status,            \* the caller's connection status (BluetoothTest.jsx):
                     \* "disconnected", "connecting", "connected", "reconnecting"
  reconnectBudget,   \* silent reconnect loops the explored behaviours may start
  bluetooth,         \* navigator.bluetooth: "undefined", "noGetDevices" (the
                     \* object without getDevices) or "full"
  call,              \* the entry point function: [pc, err], err the error it
                     \* rejected with
  discovery,         \* the requestDevice / getDevices calls made, in order:
                     \* [api, settled, ok]
  devices,           \* the devices getDevices() resolved with, in list order
  tried,             \* reconnectToMachine: what the _connectWithDevice call of
                     \* each failed device left: [device, attempts, listener]
  dataView,          \* decoders: the payload handed to the parser
  result             \* decoders: what the parser did with dataView

\* the variables of the entry point functions
facade == << bluetooth, call, discovery, devices, tried >>
\* the variables of a decoder run
decoding == << dataView, result >>

vars == << entry, deviceType, main, loops, lastErr, thrown, handles,
           fullyConnected, disconnectTimer, deviceListener, gattConnected,
           charListener, notifying, arrivals, metricsLog, nReconnecting,
           nTerminal, disconnectCalled, status, reconnectBudget, facade,
           decoding >>

NoErr == [attempt |-> 0, op |-> "none"]
St(pc, n, valid) == [pc |-> pc, n |-> n, valid |-> valid]

\* A process is the initial connect loop or one silent reconnect loop in
\* flight; the loops in the same state are interchangeable.
MainProc == << "initial", main >>
Procs == {MainProc} \cup {<< "silent", l >> : l \in BagToSet(loops)}
IsMain(p) == p[1] = "initial"

\* maxAttempts of the initial connect loop
maxAttempts ==
  IF entry = "reconnectToMachine" THEN ReconnectMaxAttempts ELSE DefaultMaxAttempts

\* no decoder run is followed
Pending == [pending |-> TRUE]
NoDecoding == dataView = <<>> /\ result = Pending

\* An entry point has been called with its arguments; nothing of the session
\* exists yet.
Called ==
  /\ entry \in {"connectToMachine", "reconnectToMachine", "connectToHRMonitor"}
  /\ deviceType \in IF entry = "connectToHRMonitor" THEN {"hr_monitor"} ELSE MACHINE_TYPES
  /\ loops = EmptyBag
  /\ lastErr = NoErr
  /\ thrown = NoErr
  /\ handles = 0
  /\ fullyConnected = FALSE
  /\ disconnectTimer = [handle |-> "null", pending |-> 0, replaced |-> FALSE]
  /\ deviceListener = FALSE
  /\ gattConnected = FALSE
  /\ charListener = FALSE
  /\ notifying = FALSE
  /\ arrivals = <<>>
  /\ metricsLog = <<>>
  /\ nReconnecting = 0
  /\ nTerminal = 0
  /\ disconnectCalled = FALSE
  /\ status = "connecting"

\* The entry point has obtained its device from the first discovery call and
\* starts the connection sequence on it.
Setup ==
  /\ Called
  /\ main = St("start", 0, FALSE)
  /\ bluetooth = "full"
  /\ call = [pc |-> "connectWithDevice", err |-> "none"]
  /\ discovery = << [api |-> IF entry = "reconnectToMachine" THEN "getDevices" ELSE "filters",
                      settled |-> TRUE, ok |-> TRUE] >>
  /\ devices = IF entry = "reconnectToMachine" THEN << 1 >> ELSE << >>
  /\ tried = << >>

Init == Setup /\ NoDecoding /\ reconnectBudget = MaxReconnects

InitTelemetry == Setup /\ NoDecoding /\ reconnectBudget = TelemetryReconnects

\* ------------------------------------------------------ transport (platform)
\* The link is gone: gatt.connected is false, the service and characteristic
\* objects of the connection are invalid and deliver nothing any more.
Stale(l) == [l EXCEPT !.valid = FALSE]

LinkDown ==
  /\ gattConnected' = FALSE
  /\ notifying' = FALSE
  /\ charListener' = FALSE
  /\ main' = Stale(main)
  /\ loops' = BagOfAll(Stale, loops)

\* ------------------------------------------- continuations of an async step
\* process p goes on in state st
Become(p, st) ==
  IF IsMain(p)
  THEN main' = st /\ UNCHANGED loops
  ELSE loops' = (loops (-) SetToBag({p[2]})) (+) SetToBag({st}) /\ UNCHANGED main

\* The step neither returns nor throws: the function awaits its next call.
Continue(p, pc, valid) ==
  /\ Become(p, St(pc, p[2].n, valid))
  /\ UNCHANGED << lastErr, thrown, handles, fullyConnected, deviceListener, nTerminal,
                  status >>

\* The caller's status when _connectWithDevice rejects: connectToMachine and
\* connectToHRMonitor reject with it and the caller's catch block runs;
\* reconnectToMachine catches the error itself.
Rejected(s) ==
  IF entry = "reconnectToMachine" THEN s ELSE "disconnected"

\* Fail without the removeEventListener after the last attempt
Fail_KeepListener(p, op) ==
  IF IsMain(p)
  THEN LET err == [attempt |-> main.n, op |-> op] IN
       /\ lastErr' = err
       /\ IF main.n < maxAttempts
          THEN /\ main' = St("backoff", main.n, FALSE)
               /\ UNCHANGED << thrown, status >>
          ELSE /\ main' = St("rejected", main.n, FALSE)
               /\ thrown' = err
               /\ status' = Rejected(status)
       /\ UNCHANGED << loops, handles, fullyConnected, nTerminal, deviceListener >>
  ELSE /\ IF p[2].n < ReconnectCycles
          THEN /\ Become(p, St("backoff", p[2].n, FALSE))
               /\ UNCHANGED << fullyConnected, nTerminal, status >>
          ELSE /\ loops' = loops (-) SetToBag({p[2]})
               /\ UNCHANGED main
               /\ fullyConnected' = FALSE
               /\ nTerminal' = nTerminal + 1
               /\ status' = "disconnected"
       /\ UNCHANGED << lastErr, thrown, handles, deviceListener >>

\* The step threw inside the try block of its retry loop.
\*   initial connect loop: catch, lastErr = err, sleep before the next
\*     attempt, or after the last one remove the device listener and rethrow;
\*   attemptSilentReconnect: catch, sleep before the next cycle, or after the
\*     last one return false to the timer callback, which clears
\*     fullyConnected and calls onDisconnect.
Fail(p, op) ==
  IF IsMain(p)
  THEN LET err == [attempt |-> main.n, op |-> op] IN
       /\ lastErr' = err
       /\ IF main.n < maxAttempts
          THEN /\ main' = St("backoff", main.n, FALSE)
               /\ UNCHANGED << thrown, deviceListener, status >>
          ELSE /\ main' = St("rejected", main.n, FALSE)
               /\ deviceListener' = FALSE
               /\ thrown' = err
               /\ status' = Rejected(status)
       /\ UNCHANGED << loops, handles, fullyConnected, nTerminal >>
  ELSE /\ IF p[2].n < ReconnectCycles
          THEN /\ Become(p, St("backoff", p[2].n, FALSE))
               /\ UNCHANGED << fullyConnected, nTerminal, status >>
          ELSE /\ loops' = loops (-) SetToBag({p[2]})
               /\ UNCHANGED main
               /\ fullyConnected' = FALSE
               /\ nTerminal' = nTerminal + 1
               /\ status' = "disconnected"
       /\ UNCHANGED << lastErr, thrown, handles, deviceListener >>

\* Subscribed where the initial loop hands out the handle without leaving the
\* retry loop
Subscribed_NoReturn(p) ==
  IF IsMain(p)
  THEN /\ fullyConnected' = TRUE
       /\ handles' = handles + 1
       /\ lastErr' = NoErr
       /\ main' = IF main.n < maxAttempts THEN St("backoff", main.n, FALSE)
                                           ELSE St("resolved", main.n, FALSE)
       /\ status' = "connected"
       /\ UNCHANGED << loops, thrown, deviceListener, nTerminal >>
  ELSE /\ loops' = loops (-) SetToBag({p[2]})
       /\ UNCHANGED << main, lastErr, thrown, handles, fullyConnected,
                       deviceListener, nTerminal, status >>

\* subscribeToCharacteristic returned.
\*   initial connect loop: fullyConnected = true; return the handle (lastErr
\*     is dead from here on);
\*   attemptSilentReconnect: return true, the timer callback has nothing left
\*     to do.
Subscribed(p) ==
  IF IsMain(p)
  THEN /\ fullyConnected' = TRUE
       /\ handles' = handles + 1
       /\ lastErr' = NoErr
       /\ main' = St("resolved", main.n, FALSE)
       /\ status' = "connected"
       /\ UNCHANGED << loops, thrown, deviceListener, nTerminal >>
  ELSE /\ loops' = loops (-) SetToBag({p[2]})
       /\ UNCHANGED << main, lastErr, thrown, handles, fullyConnected,
                       deviceListener, nTerminal, status >>

\* ------------------------------------------------- the initial connect loop
\* device.addEventListener('gattserverdisconnected', ...); attempt = 1;
\* device.gatt.connect() is issued.
ConnectWithDevice ==
  /\ main.pc = "start"
  /\ deviceListener' = TRUE
  /\ main' = St("connect", 1, FALSE)
  /\ UNCHANGED << entry, deviceType, loops, lastErr, thrown, handles, fullyConnected,
                  disconnectTimer, gattConnected, charListener, notifying,
                  arrivals, metricsLog, nReconnecting, nTerminal, disconnectCalled,
                  status,
                  reconnectBudget, facade, decoding >>

\* await device.gatt.connect() settles; on success sleep(stabilizationDelay)
\* (initial loop) or sleep(1000) (silent reconnect) starts.
GattConnect(p, ok) ==
  /\ p[2].pc = "connect"
  /\ IF ok
     THEN /\ gattConnected' = TRUE
          /\ Continue(p, "stabilize", FALSE)
     ELSE /\ UNCHANGED gattConnected
          /\ Fail(p, "connect")
  /\ UNCHANGED << entry, deviceType, disconnectTimer, charListener, notifying,
                  arrivals, metricsLog, nReconnecting, disconnectCalled,
                  reconnectBudget, facade, decoding >>

\* The stabilisation sleep is over: if (!server.connected) ...
\*   initial loop: connect once more; silent reconnect: throw.
\* Otherwise server.getPrimaryService(...) is issued.
Stabilized(p) ==
  /\ p[2].pc = "stabilize"
  /\ IF gattConnected
     THEN Continue(p, "getPrimaryService", FALSE)
     ELSE IF IsMain(p) THEN Continue(p, "connectAgain", FALSE)
                       ELSE Fail(p, "dropped")
  /\ UNCHANGED << entry, deviceType, disconnectTimer, gattConnected, charListener,
                  notifying, arrivals, metricsLog, nReconnecting, disconnectCalled,
                  reconnectBudget, facade, decoding >>

\* initial loop only: the second device.gatt.connect() of an attempt settles.
GattConnectAgain(ok) ==
  /\ main.pc = "connectAgain"
  /\ IF ok
     THEN /\ gattConnected' = TRUE
          /\ Continue(MainProc, "getPrimaryService", FALSE)
     ELSE /\ UNCHANGED gattConnected
          /\ Fail(MainProc, "connectAgain")
  /\ UNCHANGED << entry, deviceType, disconnectTimer, charListener, notifying,
                  arrivals, metricsLog, nReconnecting, disconnectCalled,
                  reconnectBudget, facade, decoding >>

\* await server.getPrimaryService(...) settles (it cannot succeed on a dead
\* link).  _connectWithDevice then sleeps 500 ms and enumerates the
\* characteristics; the other callers go straight to the subscription.
GetPrimaryService(p, ok) ==
  /\ p[2].pc = "getPrimaryService"
  /\ ok => gattConnected
  /\ IF ok
     THEN Continue(p, IF IsMain(p) /\ entry # "connectToHRMonitor"
                      THEN "getCharacteristics" ELSE "getCharacteristic", TRUE)
     ELSE Fail(p, "getPrimaryService")
  /\ UNCHANGED << entry, deviceType, disconnectTimer, gattConnected, charListener,
                  notifying, arrivals, metricsLog, nReconnecting, disconnectCalled,
                  reconnectBudget, facade, decoding >>

\* GetCharacteristics without the inner try / catch
GetCharacteristics_Uncaught(ok) ==
  /\ main.pc = "getCharacteristics"
  /\ ok => main.valid
  /\ IF ok THEN Continue(MainProc, "getCharacteristic", main.valid)
           ELSE Fail(MainProc, "getCharacteristics")
  /\ UNCHANGED << entry, deviceType, disconnectTimer, gattConnected, charListener,
                  notifying, arrivals, metricsLog, nReconnecting, disconnectCalled,
                  reconnectBudget, facade, decoding >>

\* _connectWithDevice only: service.getCharacteristics() settles; a failure
\* is caught and logged.  After sleep(500) subscribeToCharacteristic starts
\* with service.getCharacteristic(charUuid).
GetCharacteristics(ok) ==
  /\ main.pc = "getCharacteristics"
  /\ ok => main.valid
  /\ Continue(MainProc, "getCharacteristic", main.valid)
  /\ UNCHANGED << entry, deviceType, disconnectTimer, gattConnected, charListener,
                  notifying, arrivals, metricsLog, nReconnecting, disconnectCalled,
                  reconnectBudget, facade, decoding >>

\* subscribeToCharacteristic / subscribeToHR: await service.getCharacteristic
\* settles; on success the notification listener is added to the
\* characteristic and startNotifications() is issued.
GetCharacteristic(p, ok) ==
  /\ p[2].pc = "getCharacteristic"
  /\ ok => p[2].valid
  /\ IF ok
     THEN /\ charListener' = TRUE
          /\ Continue(p, "startNotifications", TRUE)
     ELSE /\ UNCHANGED charListener
          /\ Fail(p, "getCharacteristic")
  /\ UNCHANGED << entry, deviceType, disconnectTimer, gattConnected, notifying,
                  arrivals, metricsLog, nReconnecting, disconnectCalled,
                  reconnectBudget, facade, decoding >>

\* the first await char.startNotifications() settles; when it throws the
\* function sleeps 1 s and calls it again.
StartNotifications(p, ok) ==
  /\ p[2].pc = "startNotifications"
  /\ ok => p[2].valid
  /\ IF ok
     THEN /\ notifying' = TRUE
          /\ Subscribed(p)
     ELSE /\ UNCHANGED notifying
          /\ Continue(p, "retryStartNotifications", p[2].valid)
  /\ UNCHANGED << entry, deviceType, disconnectTimer, gattConnected, charListener,
                  arrivals, metricsLog, nReconnecting, disconnectCalled,
                  reconnectBudget, facade, decoding >>

\* RetryStartNotifications that swallows the error of the second call
RetryStartNotifications_Swallowed(p, ok) ==
  /\ p[2].pc = "retryStartNotifications"
  /\ ok => p[2].valid
  /\ notifying' = (notifying \/ ok)
  /\ Subscribed(p)
  /\ UNCHANGED << entry, deviceType, disconnectTimer, gattConnected, charListener,
                  arrivals, metricsLog, nReconnecting, disconnectCalled,
                  reconnectBudget, facade, decoding >>

\* the second await char.startNotifications() settles; its error propagates.
RetryStartNotifications(p, ok) ==
  /\ p[2].pc = "retryStartNotifications"
  /\ ok => p[2].valid
  /\ IF ok
     THEN /\ notifying' = TRUE
          /\ Subscribed(p)
     ELSE /\ UNCHANGED notifying
          /\ Fail(p, "startNotifications")
  /\ UNCHANGED << entry, deviceType, disconnectTimer, gattConnected, charListener,
                  arrivals, metricsLog, nReconnecting, disconnectCalled,
                  reconnectBudget, facade, decoding >>

\* Backoff that repeats the attempt / cycle without advancing the counter
Backoff_NoAdvance(p) ==
  /\ p[2].pc = "backoff"
  /\ Become(p, St("connect", p[2].n, FALSE))
  /\ UNCHANGED << entry, deviceType, lastErr, thrown, handles, fullyConnected,
                  disconnectTimer, deviceListener, gattConnected, charListener,
                  notifying, arrivals, metricsLog, nReconnecting, nTerminal,
                  disconnectCalled, status,
                  reconnectBudget, facade, decoding >>

\* the sleep(1000) after a failed attempt / cycle is over: the loop counter
\* advances and device.gatt.connect() is issued again.
Backoff(p) ==
  /\ p[2].pc = "backoff"
  /\ Become(p, St("connect", p[2].n + 1, FALSE))
  /\ UNCHANGED << entry, deviceType, lastErr, thrown, handles, fullyConnected,
                  disconnectTimer, deviceListener, gattConnected, charListener,
                  notifying, arrivals, metricsLog, nReconnecting, nTerminal,
                  disconnectCalled, status,
                  reconnectBudget, facade, decoding >>

\* ------------------------------------------------ debounce and reconnection
\* clearTimeout(disconnectTimer): cancels the timeout the handle names if it
\* is pending, and does nothing otherwise
ClearTimeout(t) ==
  IF t.handle = "pending" THEN [handle |-> "cleared", pending |-> t.pending - 1, replaced |-> FALSE] ELSE t

\* disconnectTimer = setTimeout(...); `replaced` tells, while the new timeout
\* is pending, whether the handle named a timeout that had just been cancelled
SetTimeout(t) ==
  [handle |-> "pending", pending |-> t.pending + 1, replaced |-> t.handle = "cleared"]

\* onGattDisconnected without the clearTimeout
OnGattDisconnected_NoClearTimeout(t) ==
  IF ~fullyConnected THEN t ELSE SetTimeout(t)

\* onGattDisconnected without the fullyConnected guard
OnGattDisconnected_NoGuard(t) ==
  SetTimeout(ClearTimeout(t))

\* onGattDisconnected: the timeouts after the handler has run
OnGattDisconnected(t) ==
  IF ~fullyConnected THEN t ELSE SetTimeout(ClearTimeout(t))

\* The platform raises gattserverdisconnected on the device.  `lost` tells
\* whether the link is really gone or the host stack raised the event while the
\* link is still alive.  The handler runs only while it is registered.
GattServerDisconnected(lost) ==
  /\ gattConnected
  /\ IF lost
     THEN LinkDown
     ELSE UNCHANGED << gattConnected, notifying, charListener, main, loops >>
  /\ disconnectTimer' = IF deviceListener THEN OnGattDisconnected(disconnectTimer)
                                          ELSE disconnectTimer
  /\ UNCHANGED << entry, deviceType, lastErr, thrown, handles, fullyConnected,
                  deviceListener, arrivals, metricsLog, nReconnecting, nTerminal,
                  disconnectCalled, status,
                  reconnectBudget, facade, decoding >>

\* TimerFired that announces only the first reconnection of a session
TimerFired_AnnouncedOnce(named) ==
  /\ IF named
     THEN /\ disconnectTimer.handle = "pending"
          /\ disconnectTimer' = [handle |-> "fired", pending |-> disconnectTimer.pending - 1,
                                 replaced |-> FALSE]
     ELSE /\ disconnectTimer.pending > (IF disconnectTimer.handle = "pending" THEN 1 ELSE 0)
          /\ disconnectTimer' = [disconnectTimer EXCEPT !.pending = @ - 1]
  /\ IF gattConnected
     THEN UNCHANGED << nReconnecting, loops, status >>
     ELSE /\ nReconnecting < reconnectBudget
          /\ nReconnecting' = IF nReconnecting = 0 THEN 1 ELSE nReconnecting
          /\ status' = IF nReconnecting = 0 THEN "reconnecting" ELSE status
          /\ loops' = loops (+) SetToBag({St("connect", 1, FALSE)})
  /\ UNCHANGED << entry, deviceType, main, lastErr, thrown, handles, fullyConnected,
                  deviceListener, gattConnected, charListener, notifying,
                  arrivals, metricsLog, nTerminal, disconnectCalled,
                  reconnectBudget, facade, decoding >>

\* TimerFired without the check of device.gatt.connected
TimerFired_NoLivenessCheck(named) ==
  /\ IF named
     THEN /\ disconnectTimer.handle = "pending"
          /\ disconnectTimer' = [handle |-> "fired", pending |-> disconnectTimer.pending - 1,
                                 replaced |-> FALSE]
     ELSE /\ disconnectTimer.pending > (IF disconnectTimer.handle = "pending" THEN 1 ELSE 0)
          /\ disconnectTimer' = [disconnectTimer EXCEPT !.pending = @ - 1]
  /\ nReconnecting < reconnectBudget
  /\ nReconnecting' = nReconnecting + 1
  /\ status' = "reconnecting"
  /\ loops' = loops (+) SetToBag({St("connect", 1, FALSE)})
  /\ UNCHANGED << entry, deviceType, main, lastErr, thrown, handles, fullyConnected,
                  deviceListener, gattConnected, charListener, notifying,
                  arrivals, metricsLog, nTerminal, disconnectCalled, reconnectBudget, facade, decoding >>

\* A debounce timeout expires, the one the handle names or an older one that
\* was never cleared: if (device.gatt.connected) return; otherwise
\* onReconnecting() (the caller sets its status to 'reconnecting') and
\* attemptSilentReconnect() run up to the first await, which issues
\* device.gatt.connect() of cycle 1.
TimerFired(named) ==
  /\ IF named
     THEN /\ disconnectTimer.handle = "pending"
          /\ disconnectTimer' = [handle |-> "fired", pending |-> disconnectTimer.pending - 1,
                                 replaced |-> FALSE]
     ELSE /\ disconnectTimer.pending > (IF disconnectTimer.handle = "pending" THEN 1 ELSE 0)
          /\ disconnectTimer' = [disconnectTimer EXCEPT !.pending = @ - 1]
  /\ IF gattConnected
     THEN UNCHANGED << nReconnecting, loops, status >>
     ELSE /\ nReconnecting < reconnectBudget
          /\ nReconnecting' = nReconnecting + 1
          /\ status' = "reconnecting"
          /\ loops' = loops (+) SetToBag({St("connect", 1, FALSE)})
  /\ UNCHANGED << entry, deviceType, main, lastErr, thrown, handles, fullyConnected,
                  deviceListener, gattConnected, charListener, notifying,
                  arrivals, metricsLog, nTerminal, disconnectCalled, reconnectBudget, facade, decoding >>

\* ------------------------------------------------------- the session handle
\* Disconnect without the clearTimeout
Disconnect_NoClearTimeout ==
  /\ handles > 0
  /\ ~disconnectCalled
  /\ disconnectCalled' = TRUE
  /\ fullyConnected' = FALSE
  /\ deviceListener' = FALSE
  /\ IF gattConnected
     THEN LinkDown
     ELSE UNCHANGED << gattConnected, notifying, charListener, main, loops >>
  /\ UNCHANGED << entry, deviceType, lastErr, thrown, handles, arrivals, disconnectTimer,
                  metricsLog, nReconnecting, nTerminal, status,
                  reconnectBudget, facade, decoding >>

\* handle.disconnect(): clearTimeout, fullyConnected = false, remove the device
\* listener, and device.gatt.disconnect() if the link is up.
Disconnect ==
  /\ handles > 0
  /\ ~disconnectCalled
  /\ disconnectCalled' = TRUE
  /\ disconnectTimer' = ClearTimeout(disconnectTimer)
  /\ fullyConnected' = FALSE
  /\ deviceListener' = FALSE
  /\ IF gattConnected
     THEN LinkDown
     ELSE UNCHANGED << gattConnected, notifying, charListener, main, loops >>
  /\ UNCHANGED << entry, deviceType, lastErr, thrown, handles, arrivals,
                  metricsLog, nReconnecting, nTerminal, status,
                  reconnectBudget, facade, decoding >>

\* The caller's resetState() after it has called disconnect(): at once in
\* handleLogout, two or three seconds later in handleEndWorkout.  It resets
\* the status of the machine session only.
ResetState ==
  /\ disconnectCalled
  /\ entry # "connectToHRMonitor"
  /\ status # "disconnected"
  /\ status' = "disconnected"
  /\ UNCHANGED << entry, deviceType, main, loops, lastErr, thrown, handles,
                  fullyConnected, disconnectTimer, deviceListener, gattConnected,
                  charListener, notifying, arrivals, metricsLog, nReconnecting,
                  nTerminal, disconnectCalled, reconnectBudget, facade, decoding >>

\* ------------------------------------------------------------ notifications
\* handleNotification that reports every frame twice
HandleNotification_Twice(dv) ==
  LET r == parseData(deviceType, dv)
  IN IF Threw(r) THEN metricsLog ELSE Append(Append(metricsLog, r.value), r.value)

\* handleNotification that reports a frame it could not decode as an empty one
HandleNotification_NoDrop(dv) ==
  LET r == parseData(deviceType, dv)
  IN IF Threw(r) THEN Append(metricsLog, Null) ELSE Append(metricsLog, r.value)

\* handleNotification: try { onMetrics(parseData(dv)) } catch { warn }
HandleNotification(dv) ==
  LET r == parseData(deviceType, dv)
  IN IF Threw(r) THEN metricsLog ELSE Append(metricsLog, r.value)

\* the caller's onMetrics callback that marks the session connected whatever
\* the status was
OnMetrics_AlwaysConnected(s) ==
  "connected"

\* the caller's onMetrics callback: setStatus((s) => (s === 'reconnecting' ?
\* 'connected' : s))
OnMetrics(s) ==
  IF s = "reconnecting" THEN "connected" ELSE s

\* The characteristic of the current connection dispatches
\* characteristicvaluechanged with payload dv; the event reaches the handler
\* once if it is registered on that characteristic, and the handler calls
\* onMetrics when the payload decodes.
Notification(dv) ==
  /\ notifying
  /\ Len(arrivals) < MaxNotifications
  /\ arrivals' = Append(arrivals, dv)
  /\ metricsLog' = IF charListener THEN HandleNotification(dv) ELSE metricsLog
  /\ status' = IF charListener /\ ~Threw(parseData(deviceType, dv))
                THEN OnMetrics(status) ELSE status
  /\ UNCHANGED << entry, deviceType, main, loops, lastErr, thrown, handles,
                  fullyConnected, disconnectTimer, deviceListener, gattConnected,
                  charListener, notifying, nReconnecting, nTerminal,
                  disconnectCalled, reconnectBudget, facade, decoding >>

\* ------------------------------------------------------ entry point functions
\* what the entry point leaves alone while it looks for its device
SessionUntouched ==
  UNCHANGED << entry, deviceType, loops, lastErr, thrown, handles, fullyConnected,
               disconnectTimer, deviceListener, gattConnected, charListener,
               notifying, arrivals, metricsLog, nReconnecting, nTerminal,
               disconnectCalled, reconnectBudget, bluetooth, decoding >>

Reject(err) == call' = [pc |-> "rejected", err |-> err]

\* the caller: when the entry point rejects, the catch block of handleConnect /
\* handleConnectHR sets the status
CallerStatus ==
  status' = IF call'.pc = "rejected" THEN "disconnected" ELSE status

Issue(api) == Append(discovery, [api |-> api, settled |-> FALSE, ok |-> FALSE])
Settle(ok) == [discovery EXCEPT ![Len(discovery)] = [@ EXCEPT !.settled = TRUE, !.ok = ok]]

\* the entry point calls _connectWithDevice(device, ...)
CallConnectWithDevice ==
  /\ call' = [pc |-> "connectWithDevice", err |-> "none"]
  /\ main' = St("start", 0, FALSE)

\* connectToMachine / connectToHRMonitor is called: without navigator.bluetooth
\* it throws, otherwise requestDevice({ filters }) is issued.
RequestDevice ==
  /\ call.pc = "called"
  /\ entry # "reconnectToMachine"
  /\ IF bluetooth = "undefined"
     THEN Reject("unsupported") /\ UNCHANGED discovery
     ELSE /\ call' = [pc |-> "requestDevice", err |-> "none"]
          /\ discovery' = Issue("filters")
  /\ UNCHANGED << main, devices, tried >>
  /\ SessionUntouched
  /\ CallerStatus

\* RequestDeviceSettled where a failed filtered request is not followed by
\* the picker without filter
RequestDeviceSettled_NoFallback(ok) ==
  /\ call.pc = "requestDevice"
  /\ discovery' = Settle(ok)
  /\ IF ok
     THEN CallConnectWithDevice
     ELSE Reject("requestDevice") /\ UNCHANGED main
  /\ UNCHANGED << devices, tried >>
  /\ SessionUntouched
  /\ CallerStatus

\* await requestDevice({ filters }) settles: with a device the connection
\* sequence starts; when it throws, requestDevice({ acceptAllDevices }) is
\* issued from the catch block.
RequestDeviceSettled(ok) ==
  /\ call.pc = "requestDevice"
  /\ IF ok
     THEN /\ discovery' = Settle(ok)
          /\ CallConnectWithDevice
     ELSE /\ discovery' = Append(Settle(ok), [api |-> "acceptAllDevices",
                                              settled |-> FALSE, ok |-> FALSE])
          /\ call' = [pc |-> "requestDeviceFallback", err |-> "none"]
          /\ UNCHANGED main
  /\ UNCHANGED << devices, tried >>
  /\ SessionUntouched
  /\ CallerStatus

\* await requestDevice({ acceptAllDevices }) settles; its error is not caught.
FallbackSettled(ok) ==
  /\ call.pc = "requestDeviceFallback"
  /\ discovery' = Settle(ok)
  /\ IF ok
     THEN CallConnectWithDevice
     ELSE Reject("requestDevice") /\ UNCHANGED main
  /\ UNCHANGED << devices, tried >>
  /\ SessionUntouched
  /\ CallerStatus

\* GetDevices that tests navigator.bluetooth only
GetDevices_NoOptionalChain ==
  /\ call.pc = "called"
  /\ entry = "reconnectToMachine"
  /\ IF bluetooth = "undefined"
     THEN Reject("unsupported") /\ UNCHANGED discovery
     ELSE /\ call' = [pc |-> "getDevices", err |-> "none"]
          /\ discovery' = Issue("getDevices")
  /\ UNCHANGED << main, devices, tried >>
  /\ SessionUntouched
  /\ CallerStatus

\* reconnectToMachine is called: without navigator.bluetooth?.getDevices it
\* throws, otherwise getDevices() is issued.
GetDevices ==
  /\ call.pc = "called"
  /\ entry = "reconnectToMachine"
  /\ IF bluetooth # "full"
     THEN Reject("unsupported") /\ UNCHANGED discovery
     ELSE /\ call' = [pc |-> "getDevices", err |-> "none"]
          /\ discovery' = Issue("getDevices")
  /\ UNCHANGED << main, devices, tried >>
  /\ SessionUntouched
  /\ CallerStatus

\* GetDevicesSettled without the test of devices.length: the for loop runs
\* over the empty list and the final throw is reached
GetDevicesSettled_NoEmptyCheck(ok, n) ==
  /\ call.pc = "getDevices"
  /\ discovery' = Settle(ok)
  /\ IF ~ok
     THEN Reject("getDevices") /\ UNCHANGED << devices, main >>
     ELSE /\ devices' = [i \in 1..n |-> i]
          /\ IF n = 0
             THEN Reject("noneReconnected") /\ UNCHANGED main
             ELSE CallConnectWithDevice
  /\ UNCHANGED tried
  /\ SessionUntouched
  /\ CallerStatus

\* await getDevices() settles with n devices (or throws): an empty list
\* throws, otherwise the for loop starts with the first device.
GetDevicesSettled(ok, n) ==
  /\ call.pc = "getDevices"
  /\ discovery' = Settle(ok)
  /\ IF ~ok
     THEN Reject("getDevices") /\ UNCHANGED << devices, main >>
     ELSE /\ devices' = [i \in 1..n |-> i]
          /\ IF n = 0
             THEN Reject("noDevices") /\ UNCHANGED main
             ELSE CallConnectWithDevice
  /\ UNCHANGED tried
  /\ SessionUntouched
  /\ CallerStatus

\* what _connectWithDevice left on the device it has just failed on
Outcome == [device |-> devices[Len(tried) + 1], attempts |-> main.n,
            listener |-> deviceListener]

\* DeviceFailed that gives up at the first device that fails
DeviceFailed_GiveUpEarly ==
  /\ call.pc = "connectWithDevice"
  /\ entry = "reconnectToMachine"
  /\ main.pc = "rejected"
  /\ tried' = Append(tried, Outcome)
  /\ Reject("noneReconnected")
  /\ UNCHANGED << main, lastErr, thrown, gattConnected, charListener, notifying >>
  /\ UNCHANGED << entry, deviceType, loops, handles, fullyConnected, disconnectTimer,
                  deviceListener, arrivals, metricsLog, nReconnecting, nTerminal,
                  disconnectCalled, reconnectBudget, bluetooth, discovery, devices,
                  decoding >>
  /\ CallerStatus

\* reconnectToMachine: _connectWithDevice threw for the current device; the
\* catch block logs it and the for loop calls _connectWithDevice on the next
\* device, a different object with a session of its own, or after the last
\* one throws.
DeviceFailed ==
  /\ call.pc = "connectWithDevice"
  /\ entry = "reconnectToMachine"
  /\ main.pc = "rejected"
  /\ tried' = Append(tried, Outcome)
  /\ IF Len(tried) + 1 < Len(devices)
     THEN /\ main' = St("start", 0, FALSE)
          /\ lastErr' = NoErr
          /\ thrown' = NoErr
          /\ gattConnected' = FALSE
          /\ charListener' = FALSE
          /\ notifying' = FALSE
          /\ UNCHANGED call
     ELSE /\ Reject("noneReconnected")
          /\ UNCHANGED << main, lastErr, thrown, gattConnected, charListener, notifying >>
  /\ UNCHANGED << entry, deviceType, loops, handles, fullyConnected, disconnectTimer,
                  deviceListener, arrivals, metricsLog, nReconnecting, nTerminal,
                  disconnectCalled, reconnectBudget, bluetooth, discovery, devices,
                  decoding >>
  /\ CallerStatus

\* ----------------------------------------------------------- specification
\* connection life cycle
Next ==
  \/ ConnectWithDevice
  \/ \E p \in Procs, ok \in BOOLEAN : GattConnect(p, ok)
  \/ \E p \in Procs : Stabilized(p)
  \/ \E ok \in BOOLEAN : GattConnectAgain(ok)
  \/ \E p \in Procs, ok \in BOOLEAN : GetPrimaryService(p, ok)
  \/ \E ok \in BOOLEAN : GetCharacteristics(ok)
  \/ \E p \in Procs, ok \in BOOLEAN : GetCharacteristic(p, ok)
  \/ \E p \in Procs, ok \in BOOLEAN : StartNotifications(p, ok)
  \/ \E p \in Procs, ok \in BOOLEAN : RetryStartNotifications(p, ok)
  \/ \E p \in Procs : Backoff(p)
  \/ \E lost \in BOOLEAN : GattServerDisconnected(lost)
  \/ \E named \in BOOLEAN : TimerFired(named)
  \/ Disconnect
  \/ ResetState

Spec == Init /\ [][Next]_vars

\* connection life cycle with the notifications of the characteristic
NextTelemetry ==
  \/ Next
  \/ \E dv \in Frames(deviceType) : Notification(dv)

SpecTelemetry == InitTelemetry /\ [][NextTelemetry]_vars

\* connection life cycle in which every outstanding transport call and sleep
\* of a silent reconnect loop eventually completes
InitProgress == Setup /\ NoDecoding /\ reconnectBudget = ProgressReconnects

\* an await of some attemptSilentReconnect in flight settles
LoopStep ==
  \E l \in BagToSet(loops), ok \in BOOLEAN :
    LET p == << "silent", l >>
    IN \/ GattConnect(p, ok)
       \/ Stabilized(p)
       \/ GetPrimaryService(p, ok)
       \/ GetCharacteristic(p, ok)
       \/ StartNotifications(p, ok)
       \/ RetryStartNotifications(p, ok)
       \/ Backoff(p)

SpecProgress == InitProgress /\ [][Next]_vars /\ WF_vars(LoopStep)

\* the entry point functions from their call on
InitFacade ==
  /\ Called
  /\ NoDecoding
  /\ main = St("idle", 0, FALSE)
  /\ bluetooth \in {"undefined", "noGetDevices", "full"}
  /\ call = [pc |-> "called", err |-> "none"]
  /\ discovery = << >>
  /\ devices = << >>
  /\ tried = << >>
  /\ reconnectBudget = FacadeReconnects

NextFacade ==
  \/ RequestDevice
  \/ \E ok \in BOOLEAN : RequestDeviceSettled(ok)
  \/ \E ok \in BOOLEAN : FallbackSettled(ok)
  \/ GetDevices
  \/ \E ok \in BOOLEAN, n \in 0..MaxDevices : GetDevicesSettled(ok, n)
  \/ DeviceFailed
  \/ Next

SpecFacade == InitFacade /\ [][NextFacade]_vars

\* ------------------------------------------------------------- decoder runs
\* payload bytes that differ from slot to slot
Seeds == {37, 211}
Fill(seed, len) == [i \in 1..len |-> (seed * i) % 256]
\* byte values at the edges of the 8-bit range
ByteSamples == {0, 1, 2, 3, 127, 128, 255}
\* the 16-bit flags field, little-endian, followed by the payload
Frame(flags, payload) == << flags % 256, flags \div 256 >> \o payload

\* The values event.target.value takes in the decoder runs.  Machines:
\* every combination of the flag bits over patterned payloads of three
\* lengths, frames that carry only a distance field with sampled bytes, and
\* buffers too short for the flags field.  Heart rate: every flags byte over
\* patterned payloads of up to three bytes.
DecodeInputs(type) ==
  IF type = "hr_monitor"
  THEN { << f >> \o Fill(seed, len) : f \in 0..255, seed \in Seeds, len \in 0..3 }
       \cup { << >>, << 0, 75 >>, << 1, 220, 0 >> }
  ELSE { << >>, << 0 >>, << 4 >> }
       \cup
       { Frame(flags, Fill(seed, len)) :
           flags \in 0..(2^FlagBits - 1), seed \in Seeds,
           len \in {0, ShortPayload, MaxPayload} }
       \cup
       { Frame(IF type = "echo_bike" THEN 17 ELSE 5, << b0, b1, b2 >>) :
           b0 \in ByteSamples, b1 \in ByteSamples, b2 \in ByteSamples }

\* a notification payload is about to be handed to the parser of the session
InitDecode ==
  /\ Setup
  /\ entry # "reconnectToMachine"
  /\ reconnectBudget = 0
  /\ dataView \in DecodeInputs(deviceType)
  /\ result = Pending

\* parseData(event.target.value) runs
ParseData ==
  /\ "pending" \in DOMAIN result
  /\ result' = parseData(deviceType, dataView)
  /\ UNCHANGED << entry, deviceType, main, loops, lastErr, thrown, handles,
                  fullyConnected, disconnectTimer, deviceListener, gattConnected,
                  charListener, notifying, arrivals, metricsLog, nReconnecting,
                  nTerminal, disconnectCalled, status,
                  reconnectBudget, facade, dataView >>

NextDecode == ParseData

SpecDecode == InitDecode /\ [][NextDecode]_vars

\* ---------------------------------------------------------------- properties
\* a step issues device.gatt.connect()
ConnectIssued ==
  \/ /\ main'.pc \in {"connect", "connectAgain"}
     /\ (main'.pc # main.pc \/ main'.n # main.n)
  \/ \E k \in 1..ReconnectCycles :
       CopiesIn(St("connect", k, FALSE), loops') > CopiesIn(St("connect", k, FALSE), loops)

\* a step invokes one of the caller's callbacks
CallbackFired ==
  \/ metricsLog' # metricsLog
  \/ nReconnecting' # nReconnecting
  \/ nTerminal' # nTerminal

\* a step in which a silent reconnect loop gives up after its last cycle
LoopExhausts ==
  \E l \in BagToSet(loops) :
    l.n = ReconnectCycles /\ CopiesIn(l, loops') < CopiesIn(l, loops)

\* C1: once disconnect() has been called the session issues no transport
\* connect call and fires none of onMetrics, onReconnecting, onDisconnect.
C1_SilentAfterDisconnect ==
  [][disconnectCalled => ~ConnectIssued /\ ~CallbackFired]_vars

\* C2: once disconnect() has been called the terminal-failure callback is
\* never invoked.
C2_NoTerminalAfterDisconnect ==
  [][disconnectCalled => nTerminal' = nTerminal]_vars

\* C3: the terminal-failure callback fires at most once per session, and only
\* in a step in which a silent reconnect loop has failed its last cycle.
C3_TerminalOnceAfterExhaustion ==
  [][nTerminal' # nTerminal => nTerminal = 0 /\ nTerminal' = 1 /\ LoopExhausts]_vars

\* C4: when a silent reconnect fails its last cycle the terminal-failure
\* callback fires once and fullyConnected is false; afterwards the callback
\* does not fire again, no transport connect is issued and no debounce
\* timeout is armed.
C4_NothingAfterExhaustion ==
  [][ /\ (nTerminal' # nTerminal => nTerminal' = 1 /\ ~fullyConnected')
      /\ (nTerminal > 0 =>
            /\ nTerminal' = nTerminal
            /\ ~fullyConnected'
            /\ ~ConnectIssued
            /\ disconnectTimer'.pending <= disconnectTimer.pending) ]_vars

\* C5: when the debounce timeout expires while the transport reports
\* connected, onReconnecting does not fire, no silent reconnect is started,
\* no transport connect is issued and fullyConnected keeps its value.
C5_DebounceRecovered ==
  [][ ( /\ disconnectTimer.handle = "pending"
        /\ disconnectTimer'.handle = "fired"
        /\ gattConnected )
      => /\ nReconnecting' = nReconnecting
         /\ nTerminal' = nTerminal
         /\ ~ConnectIssued
         /\ loops' = loops
         /\ fullyConnected' = fullyConnected ]_vars

\* The timeout has expired on a connected session that never entered
\* Reconnecting: it found the transport connected.
C5_Witness ==
  /\ disconnectTimer.handle = "fired"
  /\ nReconnecting = 0
  /\ fullyConnected
  /\ gattConnected
  /\ loops = EmptyBag
  /\ ~disconnectCalled

\* the session has been disconnected by the caller: the transport is closed
\* and nothing of the session is in flight
TornDown ==
  /\ disconnectCalled
  /\ loops = EmptyBag
  /\ disconnectTimer.pending = 0
  /\ ~gattConnected

C7_RetryThenResolve ==
  [][ /\ ( handles' # handles =>
             /\ handles' = 1
             /\ fullyConnected'
             /\ notifying'
             /\ main'.pc = "resolved"
             /\ main'.n = main.n
             /\ main.n <= maxAttempts
             /\ (IF main.n = 1 THEN lastErr = NoErr ELSE lastErr.attempt = main.n - 1) )
      /\ ( main.pc = "resolved" => main' = main /\ handles' = handles ) ]_vars

\* the call resolved in its last attempt, after two failed ones
C7_Witness ==
  /\ main.pc = "resolved"
  /\ main.n = DefaultMaxAttempts
  /\ handles = 1
  /\ fullyConnected

\* C8: when every attempt failed the call rejects with the error of attempt
\* maxAttempts, no handle exists, exactly maxAttempts attempts were made, the
\* device listener is removed, and no callback fires and no timeout is armed
\* then or later.
C8_ExhaustedConnectRejects ==
  /\ main.pc = "rejected" =>
       /\ thrown = lastErr
       /\ thrown.attempt = maxAttempts
       /\ main.n = maxAttempts
       /\ handles = 0
       /\ ~deviceListener
       /\ ~fullyConnected
       /\ disconnectTimer = [handle |-> "null", pending |-> 0, replaced |-> FALSE]
       /\ loops = EmptyBag
       /\ nReconnecting = 0
       /\ nTerminal = 0
       /\ metricsLog = <<>>
  /\ thrown # NoErr => main.pc = "rejected"

\* all three attempts failed, the last one at the subscription, and the link
\* has gone down
C8_Witness ==
  /\ main.pc = "rejected"
  /\ maxAttempts = DefaultMaxAttempts
  /\ thrown.op = "startNotifications"
  /\ ~gattConnected

\* the onMetrics calls a sequence of dispatched payloads must produce: one per
\* payload the decoder accepts, in order
RECURSIVE Delivered(_, _)
Delivered(type, seq) ==
  IF seq = <<>> THEN <<>>
  ELSE LET r == parseData(type, Head(seq))
       IN (IF Threw(r) THEN <<>> ELSE << r.value >>) \o Delivered(type, Tail(seq))

\* C9: onMetrics has been called exactly once for every dispatched payload
\* that decodes, in arrival order.
C9_MetricsOncePerFrameInOrder ==
  metricsLog = Delivered(deviceType, arrivals)

\* two different frames were delivered in a session that retried its initial
\* connect and went through a silent reconnect
C9_Witness ==
  /\ Len(metricsLog) = 2
  /\ metricsLog[1] # metricsLog[2]
  /\ nReconnecting = 1
  /\ main.n > 1
  /\ notifying

\* C10: a dispatched payload that fails to decode causes no onMetrics call, a
\* well-formed one exactly one; neither changes fullyConnected, the timeouts,
\* the reconnect loops or the other callbacks' counts.
C10_BadFrameDropped ==
  [][ arrivals' # arrivals =>
        LET r == parseData(deviceType, arrivals'[Len(arrivals')])
        IN /\ metricsLog' = IF Threw(r) THEN metricsLog ELSE Append(metricsLog, r.value)
           /\ UNCHANGED << fullyConnected, disconnectTimer, nReconnecting,
                           nTerminal, loops, main, gattConnected, notifying >> ]_vars

\* a malformed payload was dropped and the next, well-formed one was delivered
C10_Witness ==
  /\ Len(arrivals) = 2
  /\ Threw(parseData(deviceType, arrivals[1]))
  /\ Len(metricsLog) = 1
  /\ fullyConnected
  /\ notifying

\* a step in which a debounce timeout expires (its callback runs)
TimerExpires ==
  /\ disconnectTimer'.pending < disconnectTimer.pending
  /\ ~(disconnectTimer.handle = "pending" /\ disconnectTimer'.handle = "cleared")

\* a step in which a silent reconnect loop returns true
LoopSucceeds ==
  /\ BagCardinality(loops') < BagCardinality(loops)
  /\ nTerminal' = nTerminal

\* C11: onReconnecting fires in exactly the steps in which a debounce timeout
\* expires while the transport is disconnected, once per such step, whatever
\* happened to the session before; a silent reconnect that succeeds leaves
\* fullyConnected as it is, so a later drop is debounced and announced again.
C11_ReconnectingOncePerEntry ==
  [][ /\ (TimerExpires /\ ~gattConnected => nReconnecting' = nReconnecting + 1)
      /\ (nReconnecting' # nReconnecting =>
            TimerExpires /\ ~gattConnected /\ nReconnecting' = nReconnecting + 1)
      /\ (LoopSucceeds => fullyConnected' = fullyConnected) ]_vars

\* The session has recovered through a silent reconnect, dropped again, and
\* the timeout of the second drop has just announced the second reconnection.
C11_Witness ==
  /\ nReconnecting = 2
  /\ nTerminal = 0
  /\ loops = SetToBag({St("connect", 1, FALSE)})
  /\ disconnectTimer.handle = "fired"
  /\ disconnectTimer.pending = 0
  /\ ~gattConnected
  /\ fullyConnected
  /\ ~disconnectCalled

\* no connection sequence has been started on any device
NothingAttempted ==
  /\ main.pc = "idle"
  /\ tried = << >>
  /\ ~deviceListener
  /\ ~gattConnected
  /\ handles = 0

\* none of the caller's callbacks has been invoked
NoCallbackYet == metricsLog = << >> /\ nReconnecting = 0 /\ nTerminal = 0

\* C12: reconnectToMachine has tried the devices in list order, one attempt
\* each, and every device it gave up on is left without the disconnect
\* listener; it hands out the handle of the first device whose sequence
\* completes and then tries no other device; it rejects with its own final
\* error only when every device of the list has failed.
C12_FirstDeviceThatConnects ==
  [][ entry = "reconnectToMachine" =>
        /\ Len(tried') <= Len(devices')
        /\ \A i \in 1..Len(tried') :
             /\ tried'[i].device = devices'[i]
             /\ tried'[i].attempts = ReconnectMaxAttempts
             /\ ~tried'[i].listener
        /\ main'.n <= ReconnectMaxAttempts
        /\ (handles' # handles =>
              /\ handles' = 1
              /\ Len(tried') < Len(devices')
              /\ call'.pc = "connectWithDevice")
        /\ (handles > 0 => tried' = tried /\ call' = call /\ devices' = devices)
        /\ (call'.err = "noneReconnected" =>
              /\ Len(devices') > 0
              /\ Len(tried') = Len(devices')
              /\ handles' = 0)
        /\ (tried' # tried /\ Len(tried') = Len(devices') => call'.err = "noneReconnected") ]_vars

\* the first device failed and the second one delivered the handle
C12_Witness ==
  /\ entry = "reconnectToMachine"
  /\ Len(devices) = 2
  /\ Len(tried) = 1
  /\ handles = 1
  /\ main.pc = "resolved"

\* C13: when getDevices() resolves with an empty list reconnectToMachine has
\* rejected with its "no devices" error in that very step, no connection
\* sequence was started on any device and no callback was invoked.
C13_EmptyListRejects ==
  /\ ( /\ entry = "reconnectToMachine"
       /\ discovery # << >>
       /\ discovery[1].settled
       /\ discovery[1].ok
       /\ devices = << >> )
     => call = [pc |-> "rejected", err |-> "noDevices"]
  /\ call.err = "noDevices" =>
       /\ call.pc = "rejected"
       /\ devices = << >>
       /\ Len(discovery) = 1
       /\ NothingAttempted
       /\ NoCallbackYet

\* getDevices() resolved with no device and the call rejected
C13_Witness ==
  /\ call.err = "noDevices"
  /\ discovery[1].ok
  /\ devices = << >>

\* the discovery primitive the entry point needs is missing
Unsupported ==
  IF entry = "reconnectToMachine" THEN bluetooth # "full" ELSE bluetooth = "undefined"

\* C14: when the discovery primitive is missing the entry point makes no
\* requestDevice and no getDevices call, starts no connection sequence,
\* attaches no listener and rejects with the unsupported-platform error; it
\* rejects with that error in no other case.
C14_UnsupportedFailsFast ==
  /\ Unsupported =>
       /\ discovery = << >>
       /\ NothingAttempted
       /\ NoCallbackYet
       /\ call \in { [pc |-> "called", err |-> "none"],
                      [pc |-> "rejected", err |-> "unsupported"] }
  /\ call.err = "unsupported" => Unsupported

\* reconnectToMachine rejected on a platform that has navigator.bluetooth but
\* not getDevices
C14_Witness ==
  /\ entry = "reconnectToMachine"
  /\ bluetooth = "noGetDevices"
  /\ call = [pc |-> "rejected", err |-> "unsupported"]

\* C15: a fresh connect asks for the filtered picker first; the accept-all
\* picker is requested exactly when the filtered request has failed, so at
\* most two requests are made; when the second one fails too the call has
\* rejected and no connection sequence was started.
C15_FallbackIffFilteredFailed ==
  entry # "reconnectToMachine" =>
    /\ Len(discovery) <= 2
    /\ \A i \in 1..Len(discovery) :
         discovery[i].api = IF i = 1 THEN "filters" ELSE "acceptAllDevices"
    /\ Len(discovery) = 2 <=> (discovery # << >> /\ discovery[1].settled /\ ~discovery[1].ok)
    /\ ( Len(discovery) = 2 /\ discovery[2].settled /\ ~discovery[2].ok )
       => /\ call = [pc |-> "rejected", err |-> "requestDevice"]
          /\ NothingAttempted
          /\ NoCallbackYet
    /\ main.pc # "idle" => discovery[Len(discovery)].ok

\* both pickers failed and the call rejected
C15_Witness ==
  /\ entry = "connectToHRMonitor"
  /\ Len(discovery) = 2
  /\ discovery[2].settled
  /\ ~discovery[2].ok
  /\ call.pc = "rejected"

\* ------------------------------------------------- the FTMS record layouts
\* bit k of the flags field
Bit(flags, k) == (flags \div 2^k) % 2 = 1
\* the field of flag bit k is in the record (bit 0 is inverted)
FieldPresent(flags, k) == IF k = 0 THEN ~Bit(flags, 0) ELSE Bit(flags, k)
\* width in bytes of the field of flag bit k, at index k + 1.  Indoor Bike
\* Data: speed, average speed, cadence, average cadence, distance,
\* resistance, power, average power, energy (total, per hour, per minute),
\* heart rate, metabolic equivalent, elapsed time
BikeLayout == << 2, 2, 2, 2, 3, 2, 2, 2, 5, 1, 1, 2 >>
\* Rower Data: stroke rate and count, average stroke rate, distance, pace,
\* average pace, power, average power, resistance, energy, heart rate,
\* metabolic equivalent, elapsed time
RowerLayout == << 3, 1, 3, 2, 2, 2, 2, 2, 5, 1, 1, 2 >>
\* offset of the slot of flag bit k: 2 plus the widths of the earlier fields
\* that are present
RECURSIVE SlotOffset(_, _, _)
SlotOffset(layout, flags, k) ==
  IF k = 0 THEN 2
  ELSE SlotOffset(layout, flags, k - 1)
         + (IF FieldPresent(flags, k - 1) THEN layout[k] ELSE 0)
\* the unsigned little-endian value of the w bytes at offset off
RECURSIVE LittleEndian(_, _, _)
LittleEndian(dv, off, w) ==
  IF w = 0 THEN 0 ELSE dv[off + 1] + 256 * LittleEndian(dv, off + 1, w - 1)
Signed16(u) == IF u >= 32768 THEN u - 65536 ELSE u
\* v is the decimal raw * 0.5
IsHalfOf(v, raw) == v.tenths \in {0, 5} /\ 20 * v.int + 2 * v.tenths = 10 * raw

\* the parser of a session of the given type has run on a dataView that
\* holds the flags field
Decoded(type) ==
  deviceType = type /\ "pending" \notin DOMAIN result /\ Len(dataView) >= 2
InputFlags == dataView[1] + 256 * dataView[2]
\* the w-byte read of the field of bit k leaves the buffer
Overrun(layout, k, w) ==
  Bit(InputFlags, k) /\ SlotOffset(layout, InputFlags, k) + w > Len(dataView)

\* C16: the bike decoder reads every surfaced field at offset 2 plus the
\* widths of the earlier present fields (it throws exactly when such a read
\* leaves the buffer); cadence is the unsigned 16-bit little-endian value of
\* its slot times 0.5, watts the signed 16-bit value of its slot, distance,
\* calories and elapsed time the unsigned values of theirs.
C16_BikeFieldsAtLayoutOffsets ==
  Decoded("echo_bike") =>
    LET off(k) == SlotOffset(BikeLayout, InputFlags, k)
        v == result.value
    IN /\ Threw(result) <=>
            \/ Overrun(BikeLayout, 2, 2) \/ Overrun(BikeLayout, 4, 3)
            \/ Overrun(BikeLayout, 6, 2) \/ Overrun(BikeLayout, 8, 2)
            \/ Overrun(BikeLayout, 11, 2)
       /\ ~Threw(result) =>
            /\ Bit(InputFlags, 2) =>
                 /\ Len(v.cadence) = 1
                 /\ IsHalfOf(v.cadence[1], LittleEndian(dataView, off(2), 2))
            /\ Bit(InputFlags, 6) =>
                 v.watts = << Signed16(LittleEndian(dataView, off(6), 2)) >>
            /\ Bit(InputFlags, 4) => v.distance = << LittleEndian(dataView, off(4), 3) >>
            /\ Bit(InputFlags, 8) => v.calories = << LittleEndian(dataView, off(8), 2) >>
            /\ Bit(InputFlags, 11) => v.elapsedTime = << LittleEndian(dataView, off(11), 2) >>

\* a frame with cadence and power, a skipped resistance field between them,
\* decoded to a fractional cadence and a negative power
C16_Witness ==
  /\ Decoded("echo_bike")
  /\ ~Threw(result)
  /\ Bit(InputFlags, 2) /\ Bit(InputFlags, 5) /\ Bit(InputFlags, 6)
  /\ result.value.cadence[1].tenths = 5
  /\ result.value.watts[1] < 0

\* C17: in both decoders, with flag bit 8 set calories is the unsigned
\* 16-bit little-endian value at the energy slot, and elapsed time, the
\* surfaced field behind it, is read 5 bytes after the start of the energy
\* slot (plus one byte each for a heart rate and a metabolic equivalent).
C17_EnergyAdvancesFive ==
  (Decoded("echo_bike") \/ Decoded("ski_erg")) /\ Bit(InputFlags, 8) /\ ~Threw(result) =>
    LET layout == IF deviceType = "echo_bike" THEN BikeLayout ELSE RowerLayout
        energy == SlotOffset(layout, InputFlags, 8)
        behind == energy + 5 + (IF Bit(InputFlags, 9) THEN 1 ELSE 0)
                             + (IF Bit(InputFlags, 10) THEN 1 ELSE 0)
    IN /\ result.value.calories = << LittleEndian(dataView, energy, 2) >>
       /\ Bit(InputFlags, 11) =>
            /\ behind + 2 <= Len(dataView)
            /\ result.value.elapsedTime = << LittleEndian(dataView, behind, 2) >>

\* a rower frame with energy and elapsed time, where the bytes 2 after the
\* energy slot differ from those 5 after it
C17_Witness ==
  /\ Decoded("ski_erg")
  /\ ~Threw(result)
  /\ Bit(InputFlags, 8) /\ Bit(InputFlags, 11) /\ ~Bit(InputFlags, 9) /\ ~Bit(InputFlags, 10)
  /\ LET energy == SlotOffset(RowerLayout, InputFlags, 8)
     IN /\ result.value.elapsedTime[1] = LittleEndian(dataView, energy + 5, 2)
        /\ result.value.elapsedTime[1] # LittleEndian(dataView, energy + 2, 2)

\* C18: with the distance flag set (bit 4 bike, bit 2 rower) the distance is
\* b0 + 256*b1 + 65536*b2 of the three bytes at the distance slot, within
\* 0 .. 16777215, and the power field behind it is read 3 bytes (plus the
\* skipped fields between them) after the start of the distance slot.
C18_DistanceUint24 ==
  (Decoded("echo_bike") \/ Decoded("ski_erg")) /\ ~Threw(result) =>
    LET bike == deviceType = "echo_bike"
        layout == IF bike THEN BikeLayout ELSE RowerLayout
        dBit == IF bike THEN 4 ELSE 2
        at == SlotOffset(layout, InputFlags, dBit)
        between == IF bike THEN (IF Bit(InputFlags, 5) THEN 2 ELSE 0)
                           ELSE (IF Bit(InputFlags, 3) THEN 2 ELSE 0)
                                + (IF Bit(InputFlags, 4) THEN 2 ELSE 0)
        pBit == IF bike THEN 6 ELSE 5
    IN Bit(InputFlags, dBit) =>
         /\ result.value.distance =
              << dataView[at + 1] + 256 * dataView[at + 2] + 65536 * dataView[at + 3] >>
         /\ result.value.distance[1] \in 0..16777215
         /\ Bit(InputFlags, pBit) =>
              result.value.watts =
                << Signed16(LittleEndian(dataView, at + 3 + between, 2)) >>

\* a distance whose high byte has its top bit set was decoded
C18_Witness ==
  /\ Decoded("echo_bike")
  /\ ~Threw(result)
  /\ Bit(InputFlags, 4)
  /\ result.value.distance[1] >= 8388608

\* C19: in a decoded bike frame each of cadence, distance, watts, calories
\* and elapsedTime is present exactly when its flag bit (2, 4, 6, 8, 11) is
\* set and is null otherwise; with no flag bit set the decoder reads nothing
\* and returns five nulls; and the speed field of a clear bit 0 takes 2 bytes
\* in front of the first field read.
C19_BikeFieldsPresentIffFlagged ==
  Decoded("echo_bike") =>
    /\ ~Threw(result) =>
         /\ Len(result.value.cadence) = (IF Bit(InputFlags, 2) THEN 1 ELSE 0)
         /\ Len(result.value.distance) = (IF Bit(InputFlags, 4) THEN 1 ELSE 0)
         /\ Len(result.value.watts) = (IF Bit(InputFlags, 6) THEN 1 ELSE 0)
         /\ Len(result.value.calories) = (IF Bit(InputFlags, 8) THEN 1 ELSE 0)
         /\ Len(result.value.elapsedTime) = (IF Bit(InputFlags, 11) THEN 1 ELSE 0)
         /\ DOMAIN result.value = {"watts", "cadence", "distance", "calories", "elapsedTime"}
    /\ (\A k \in {2, 4, 6, 8, 11} : ~Bit(InputFlags, k)) =>
         /\ ~Threw(result)
         /\ \A f \in DOMAIN result.value : result.value[f] = << >>
    /\ (~Threw(result) /\ InputFlags % 8 = 4) =>
         result.value.cadence[1].int = LittleEndian(dataView, 4, 2) \div 2

\* a frame of nothing but a zero flags field decoded to five nulls
C19_Witness ==
  /\ Decoded("echo_bike")
  /\ InputFlags = 0
  /\ Len(dataView) = 2
  /\ ~Threw(result)
  /\ result.value.watts = << >>
  /\ result.value.cadence = << >>

\* C20: in a decoded rower frame the stroke rate is present exactly when
\* flag bit 0 is clear, it is the byte at offset 2 times 0.5, and the fields
\* behind it start 3 bytes later; with bit 0 set it is null and they start at
\* offset 2.
C20_StrokeRateInvertedBit ==
  Decoded("ski_erg") =>
    LET stroke == ~Bit(InputFlags, 0)
        next == 2 + (IF stroke THEN 3 ELSE 0) + (IF Bit(InputFlags, 1) THEN 1 ELSE 0)
    IN /\ (stroke /\ Len(dataView) < 3) => Threw(result)
       /\ ~Threw(result) =>
            /\ Len(result.value.strokeRate) = (IF stroke THEN 1 ELSE 0)
            /\ stroke => IsHalfOf(result.value.strokeRate[1], dataView[3])
            /\ Bit(InputFlags, 2) =>
                 result.value.distance = << LittleEndian(dataView, next, 3) >>
            /\ (~Bit(InputFlags, 2) /\ Bit(InputFlags, 3)
                  /\ ~Bit(InputFlags, 4) /\ Bit(InputFlags, 5)) =>
                 result.value.watts = << Signed16(LittleEndian(dataView, next + 2, 2)) >>

\* a rower frame with a fractional stroke rate and a distance read behind the
\* 3-byte stroke slot
C20_Witness ==
  /\ Decoded("ski_erg")
  /\ ~Threw(result)
  /\ ~Bit(InputFlags, 0) /\ ~Bit(InputFlags, 1) /\ Bit(InputFlags, 2)
  /\ result.value.strokeRate[1].tenths = 5
  /\ result.value.distance[1] = LittleEndian(dataView, 5, 3)
  /\ result.value.distance[1] # LittleEndian(dataView, 3, 3)

\* C21: the heart-rate decoder returns the byte at offset 1 when bit 0 of the
\* flags byte is clear and the unsigned 16-bit little-endian value of the
\* bytes at offsets 1 and 2 when it is set, whatever the other flag bits; it
\* throws exactly when the buffer does not hold the bytes it reads.
C21_HeartRateWidthByBitZero ==
  (deviceType = "hr_monitor" /\ "pending" \notin DOMAIN result) =>
    LET wide == Len(dataView) >= 1 /\ dataView[1] % 2 = 1
        needed == IF wide THEN 3 ELSE 2
    IN /\ Threw(result) <=> Len(dataView) < needed
       /\ ~Threw(result) =>
            result.value = (IF wide THEN dataView[2] + 256 * dataView[3] ELSE dataView[2])

\* a 16-bit heart rate above 255 was decoded from a frame whose flags byte
\* has other bits set as well
C21_Witness ==
  /\ deviceType = "hr_monitor"
  /\ "pending" \notin DOMAIN result
  /\ ~Threw(result)
  /\ dataView[1] = 17
  /\ result.value > 255

\* a machine parser has run on dataView, whatever its length
MachineDecoded == deviceType \in MACHINE_TYPES /\ "pending" \notin DOMAIN result
\* the record layout of the session's characteristic
Layout == IF deviceType = "echo_bike" THEN BikeLayout ELSE RowerLayout
\* the buffer is shorter than its flags word implies: 2 bytes of flags plus
\* the widths of all fields marked present
Truncated ==
  \/ Len(dataView) < 2
  \/ Len(dataView) < SlotOffset(Layout, InputFlags, 12)
\* the fields a parser reads, as << flag bit, bytes read >>: cadence (bike) or
\* stroke rate (rower), distance, power, the total of the energy field,
\* elapsed time
FieldsRead ==
  IF deviceType = "echo_bike"
  THEN { << 2, 2 >>, << 4, 3 >>, << 6, 2 >>, << 8, 2 >>, << 11, 2 >> }
  ELSE { << 0, 1 >>, << 2, 3 >>, << 5, 2 >>, << 8, 2 >>, << 11, 2 >> }
\* a byte the parser reads lies behind the end of the buffer
ReadLeavesBuffer ==
  \/ Len(dataView) < 2
  \/ \E f \in FieldsRead :
       /\ FieldPresent(InputFlags, f[1])
       /\ SlotOffset(Layout, InputFlags, f[1]) + f[2] > Len(dataView)

\* C22 as stated: every buffer shorter than the layout its flags word implies
\* makes the decoder throw.
C22_TruncatedBufferThrows ==
  (MachineDecoded /\ Truncated) => Threw(result)

\* C22 as amended: the decoder throws exactly when a byte it reads (the flags
\* word, or a surfaced field at its layout offset) lies behind the end of the
\* buffer; a buffer that lacks only bytes the decoder skips is decoded.
C22_UnreadableFieldThrows ==
  MachineDecoded => (Threw(result) <=> ReadLeavesBuffer)

\* a rower frame cut inside a field the parser reads was rejected
C22_Witness ==
  /\ MachineDecoded
  /\ deviceType = "ski_erg"
  /\ Len(dataView) = 2 + ShortPayload
  /\ Truncated
  /\ Threw(result)

\* C23: at most one silent reconnect loop of the session is in progress at
\* any time.
C23_OneReconnectLoop ==
  BagCardinality(loops) <= 1

\* C25: in the step that fires the terminal-failure callback the session is
\* torn down: the disconnect listener is off the device and the transport is
\* not connected.
C25_TerminalFailureTearsDown ==
  [][ nTerminal' # nTerminal => (~deviceListener' /\ ~gattConnected') ]_vars

\* the processes of a bag that stand at pc in round n, whatever the state of
\* their service object
PcCount(pc, n, bag) ==
  CopiesIn(St(pc, n, TRUE), bag) + CopiesIn(St(pc, n, FALSE), bag)

\* C27: a subscribe step calls startNotifications a second time only after
\* the first call of the same attempt or cycle threw; after the second call
\* the step ends: either it succeeded, or the error fails the enclosing
\* attempt (recorded as the attempt's error, then backoff or rejection) or
\* reconnect cycle (backoff, or terminal failure after the last cycle).
C27_SubscribeRetriedOnce ==
  [][ /\ (main'.pc = "retryStartNotifications" /\ main.pc # main'.pc) =>
            /\ main.pc = "startNotifications"
            /\ main'.n = main.n
            /\ notifying' = notifying
      /\ (main.pc = "startNotifications" /\ main'.pc # main.pc) =>
            main'.pc \in {"resolved", "retryStartNotifications"}
      /\ (main.pc = "retryStartNotifications" /\ main'.pc # main.pc) =>
            \/ /\ main'.pc = "resolved"
               /\ notifying'
               /\ handles' = handles + 1
            \/ /\ main'.pc = IF main.n < maxAttempts THEN "backoff" ELSE "rejected"
               /\ main'.n = main.n
               /\ lastErr' = [attempt |-> main.n, op |-> "startNotifications"]
               /\ handles' = handles
      /\ \A n \in 1..ReconnectCycles :
            /\ PcCount("retryStartNotifications", n, loops') > PcCount("retryStartNotifications", n, loops)
                 => PcCount("startNotifications", n, loops') < PcCount("startNotifications", n, loops)
            /\ PcCount("retryStartNotifications", n, loops') < PcCount("retryStartNotifications", n, loops)
                 => \/ LoopSucceeds /\ notifying'
                    \/ /\ n < ReconnectCycles
                       /\ PcCount("backoff", n, loops') > PcCount("backoff", n, loops)
                       /\ nTerminal' = nTerminal
                    \/ /\ n = ReconnectCycles
                       /\ BagCardinality(loops') < BagCardinality(loops)
                       /\ nTerminal' = nTerminal + 1 ]_vars

\* both startNotifications calls of attempt 1 threw: the attempt has failed
\* with that error and the loop sleeps before attempt 2
C27_Witness ==
  /\ main.pc = "backoff"
  /\ main.n = 1
  /\ lastErr = [attempt |-> 1, op |-> "startNotifications"]
  /\ charListener

\* C28: within an initial connect attempt device.gatt.connect() is issued
\* once at the start of the attempt and a second time only when the
\* stabilisation sleep ends with the transport disconnected; the service
\* lookup is issued only at the end of the stabilisation sleep with the
\* transport connected, or after that second connect; whatever
\* getCharacteristics() does, the attempt goes on to the subscription with no
\* error recorded.
C28_ConnectStabilizeLookup ==
  [][ /\ (main'.pc = "connect" /\ (main.pc # "connect" \/ main'.n # main.n)) =>
            /\ main.pc \in {"start", "backoff"}
            /\ main'.n = main.n + 1
      /\ (main'.pc = "connectAgain" /\ main.pc # "connectAgain") =>
            /\ main.pc = "stabilize"
            /\ ~gattConnected
            /\ main'.n = main.n
      /\ (main.pc = "connectAgain" /\ main'.pc # "connectAgain") =>
            main'.pc \in {"getPrimaryService", "backoff", "rejected"}
      /\ (main.pc = "stabilize" /\ main'.pc # "stabilize") =>
            main'.pc = IF gattConnected THEN "getPrimaryService" ELSE "connectAgain"
      /\ (main'.pc = "getPrimaryService" /\ main.pc # "getPrimaryService") =>
            /\ \/ main.pc = "stabilize" /\ gattConnected
               \/ main.pc = "connectAgain" /\ gattConnected'
            /\ main'.n = main.n
      /\ (main.pc = "getCharacteristics" /\ main'.pc # "getCharacteristics") =>
            /\ main'.pc = "getCharacteristic"
            /\ main'.n = main.n
            /\ lastErr' = lastErr
            /\ thrown' = thrown ]_vars

\* the link died during the stabilisation sleep of the last attempt and the
\* second connect of that attempt is outstanding
C28_Witness ==
  /\ main.pc = "connectAgain"
  /\ main.n = maxAttempts
  /\ ~gattConnected
  /\ deviceListener

\* C30: as long as no handle has been handed out no timeout has ever been
\* armed, no callback has fired, no reconnect loop runs and fullyConnected is
\* false, whatever disconnect signals arrived; fullyConnected turns true only
\* in the step in which a startNotifications call of the initial loop
\* succeeds.
C30_InitialPhaseIgnoresSignals ==
  [][ /\ handles' = 0 =>
            /\ disconnectTimer' = [handle |-> "null", pending |-> 0, replaced |-> FALSE]
            /\ NoCallbackYet'
            /\ loops' = EmptyBag
            /\ ~fullyConnected'
      /\ (fullyConnected' /\ ~fullyConnected) =>
            /\ main.pc \in {"startNotifications", "retryStartNotifications"}
            /\ main'.pc = "resolved"
            /\ notifying'
            /\ handles' = 1 ]_vars

\* the link was lost after the service lookup of an initial attempt (the
\* service object is invalid), with the disconnect listener registered and no
\* handle handed out
C30_Witness ==
  /\ main.pc = "getCharacteristic"
  /\ ~main.valid
  /\ ~gattConnected
  /\ deviceListener
  /\ handles = 0
  /\ entry = "connectToHRMonitor"

\* C26: every silent reconnect loop that is started ends; it never goes beyond
\* cycle 3, and it ends in one of two ways: a cycle's subscription succeeds
\* and no terminal-failure callback fires, or cycle 3 fails and the
\* terminal-failure callback fires once.
C26_ReconnectLoopTerminates ==
  /\ [][ /\ \A l \in BagToSet(loops') : l.n \in 1..ReconnectCycles
         /\ BagCardinality(loops') < BagCardinality(loops) =>
               \/ /\ nTerminal' = nTerminal
                  /\ notifying'
                  /\ gattConnected'
                  /\ \E l \in BagToSet(loops) :
                       /\ l.pc \in {"startNotifications", "retryStartNotifications"}
                       /\ l.valid
                       /\ CopiesIn(l, loops') < CopiesIn(l, loops)
               \/ /\ nTerminal' = nTerminal + 1
                  /\ LoopExhausts
                  /\ ~fullyConnected'
                  /\ notifying' = notifying ]_vars
  /\ (loops # EmptyBag) ~> (loops = EmptyBag)

\* the reconnect loop has ended by terminal failure: its third cycle connected
\* and then failed, and disconnect() was never called
C26_Witness ==
  /\ nReconnecting = 1
  /\ nTerminal = 1
  /\ loops = EmptyBag
  /\ gattConnected
  /\ ~disconnectCalled
  /\ ~fullyConnected

\* C24: at most one debounce timeout is pending at any time, the one the
\* handle names; a timeout is armed only by a disconnect signal on a fully
\* connected session, and one armed while another was pending replaces it;
\* so when a timeout expires none is left pending, and the expiry calls
\* onReconnecting at most once and starts at most one reconnect loop.
C24_OnePendingTimeout ==
  [][ /\ disconnectTimer'.pending <= 1
      /\ (disconnectTimer'.pending = 1) <=> (disconnectTimer'.handle = "pending")
      /\ disconnectTimer' # disconnectTimer /\ disconnectTimer'.handle = "pending" =>
            /\ gattConnected /\ deviceListener /\ fullyConnected
            /\ disconnectTimer'.replaced <=> (disconnectTimer.handle = "pending")
      /\ TimerExpires =>
            /\ disconnectTimer'.pending = 0
            /\ nReconnecting' <= nReconnecting + 1
            /\ BagCardinality(loops') <= BagCardinality(loops) + 1
      /\ nReconnecting' # nReconnecting => TimerExpires ]_vars

\* A disconnect signal arrived while the timeout of an earlier one was
\* pending: that timeout was cancelled and the one that replaced it is the
\* only one pending; the link is down and no timeout has expired yet.
C24_Witness ==
  /\ disconnectTimer.handle = "pending"
  /\ disconnectTimer.replaced
  /\ disconnectTimer.pending = 1
  /\ ~gattConnected
  /\ nReconnecting = 0
  /\ fullyConnected

====
